---- MODULE Spec2Model ----
(***************************************************************************)
(* A model of genconstructor.Run (src/genconstructor/genconstructor.go).   *)
(*                                                                         *)
(* Strings are modelled by their lexical structure:                        *)
(*   - an identifier (struct or field name) is the sequence of its         *)
(*     characters, each a one-character string;                            *)
(*   - a doc-comment line is the sequence of its whitespace separated      *)
(*     tokens, a token being a sequence of atoms with no whitespace        *)
(*     between them, so that `//genconstructor-p` is the one token         *)
(*     <<"//genconstructor", "-p">>;                                       *)
(*   - a constant-value expression (the value of the `required` tag key)   *)
(*     is a sequence of pieces, each either an identifier run (letters,    *)
(*     '.', '_', '-') or a separator run (anything else).                  *)
(***************************************************************************)
EXTENDS Naturals, Sequences, FiniteSets

VARIABLES
    walkers,         \* the input: per compilation-unit group (walker), its
                     \* struct specs in the order AllStructSpecs yields them
    pc,              \* position of Run: "specs" (inside the loop over a walker's
                     \* struct specs), "write" (before writer.Write),
                     \* "returning" (running the deferred calls), "done"
    gi,              \* index of the walker the outer loop is at
    si,              \* struct specs of the current walker already visited
    body,            \* body buffer of the current walker: rendered constructors
    importPackages,  \* importPackages map of the current walker
    last,            \* the struct spec visited last and what Run made of it
    outputs,         \* per walker: what was written to its writer
    writers,         \* writers handed out by newWriter, in request order
    deferred,        \* stack of deferred closer.Close() calls
    err              \* the error Run returns ("nil" while none)

vars == <<walkers, pc, gi, si, body, importPackages, last, outputs, writers,
          deferred, err>>

-----------------------------------------------------------------------------
(* Bounds of the model *)

MaxGroups == 2
MaxSpecs == 2
MaxFields == 2
MaxOptTokens == 2

-----------------------------------------------------------------------------
(* Constants of the program *)

commentMarker == "//genconstructor"
pointerOpts == "-p"
superOpts == "-s"
extendsOpts == "-e"

-----------------------------------------------------------------------------
(* Small helpers on sequences and maps *)

Range(s) == {s[i] : i \in DOMAIN s}

SeqsUpTo(S, n) == UNION {[1..k -> S] : k \in 0..n}

EmptyMap == [a \in {} |-> ""]

\* as MergeImports, were the assignment importPackages[n] = pkg left out
MergeImportsDropped(into, m) == into

\* for n, pkg := range m { importPackages[n] = pkg }
MergeImports(into, m) ==
    [a \in (DOMAIN into) \cup (DOMAIN m) |->
        IF a \in DOMAIN m THEN m[a] ELSE into[a]]

Min(S) == CHOOSE x \in S : \A y \in S : x <= y

-----------------------------------------------------------------------------
(* strcase: identifiers are sequences of one-character strings *)

Lowers == <<"a","b","c","d","e","f","g","h","i","j","k","l","m",
            "n","o","p","q","r","s","t","u","v","w","x","y","z">>
Uppers == <<"A","B","C","D","E","F","G","H","I","J","K","L","M",
            "N","O","P","Q","R","S","T","U","V","W","X","Y","Z">>

IsLower(c) == c \in Range(Lowers)
IsUpper(c) == c \in Range(Uppers)
IsDelim(c) == c \in {"_", "-", " ", "."}

ToUpperCh(c) ==
    IF IsLower(c) THEN Uppers[CHOOSE i \in DOMAIN Lowers : Lowers[i] = c] ELSE c
ToLowerCh(c) ==
    IF IsUpper(c) THEN Lowers[CHOOSE i \in DOMAIN Uppers : Uppers[i] = c] ELSE c

\* positions at which a word starts: after a delimiter, at a lower-to-upper
\* boundary, and at the last capital of a run of capitals followed by a
\* lower-case letter
WordStarts(s) ==
    {i \in DOMAIN s :
        /\ ~IsDelim(s[i])
        /\ \/ i = 1
           \/ IsDelim(s[i-1])
           \/ IsUpper(s[i]) /\ IsLower(s[i-1])
           \/ IsUpper(s[i]) /\ IsUpper(s[i-1]) /\ i < Len(s) /\ IsLower(s[i+1])}

\* the word starting at i: up to the next word start or delimiter
WordAt(s, i) ==
    LET stops == {j \in (i+1)..Len(s) : j \in WordStarts(s) \/ IsDelim(s[j])}
        end == IF stops = {} THEN Len(s) ELSE Min(stops) - 1
    IN  SubSeq(s, i, end)

RECURSIVE WordsFrom(_, _)
WordsFrom(s, starts) ==
    IF starts = {} THEN <<>>
    ELSE LET i == Min(starts)
         IN  <<WordAt(s, i)>> \o WordsFrom(s, starts \ {i})

\* strcase.SplitIntoWords
SplitIntoWords(s) == WordsFrom(s, WordStarts(s))

RECURSIVE Join(_)
\* strings.Join(words, "")
Join(words) ==
    IF words = <<>> THEN <<>> ELSE Head(words) \o Join(Tail(words))

TitleWord(w) ==
    [i \in DOMAIN w |-> IF i = 1 THEN ToUpperCh(w[i]) ELSE ToLowerCh(w[i])]
LowerWord(w) == [i \in DOMAIN w |-> ToLowerCh(w[i])]

\* strcase.ToUpperCamel: the words, each capitalised, joined
ToUpperCamel(s) ==
    LET ws == SplitIntoWords(s)
    IN  Join([i \in DOMAIN ws |-> TitleWord(ws[i])])

\* strcase.ToLowerCamel: first word lower-cased, the others capitalised
ToLowerCamel(s) ==
    LET ws == SplitIntoWords(s)
    IN  Join([i \in DOMAIN ws |->
                 IF i = 1 THEN LowerWord(ws[i]) ELSE TitleWord(ws[i])])

-----------------------------------------------------------------------------
(* func match(a, b []string) []string *)

\* as match, were the lookup in mb left out
matchKeepAll(a, b) == a

match(a, b) ==
    LET mb == Range(b)
    IN  SelectSeq(a, LAMBDA x : x \in mb)

-----------------------------------------------------------------------------
(* Option parsing, lines 77-113 *)

\* as HasMarkerPrefix, were any non-empty comment line taken for the marker
HasMarkerPrefixAnyLine(line) == Len(line) > 0

\* strings.HasPrefix(strings.TrimSpace(comment.Text), commentMarker)
HasMarkerPrefix(line) ==
    /\ Len(line) > 0
    /\ Len(line[1]) > 0
    /\ line[1][1] = commentMarker

\* the token s of strings.Fields(comment.Text) equals the option text
IsOpt(tok, opt) == tok = <<opt>>

IsAnyOpt(tok) ==
    IsOpt(tok, pointerOpts) \/ IsOpt(tok, superOpts) \/ IsOpt(tok, extendsOpts)

\* docs = spec.Doc.List followed by decl.Doc.List
DocsOf(spec) == spec.doc \o spec.declDoc

NoOpts == [hasMarker |-> FALSE, hasPointerOpts |-> FALSE,
           hasSuperOpts |-> FALSE, hasExtendsOpts |-> FALSE]

\* as ParseOptions, were the `break` after a recognized option missing:
\* every option token of the marker line sets its flag
ParseOptionsNoBreak(docs) ==
    LET marked == {i \in DOMAIN docs : HasMarkerPrefix(docs[i])}
    IN  IF marked = {} THEN NoOpts
        ELSE LET line == docs[Min(marked)]
             IN  [hasMarker |-> TRUE,
                  hasPointerOpts |-> \E j \in DOMAIN line : IsOpt(line[j], pointerOpts),
                  hasSuperOpts |-> \E j \in DOMAIN line : IsOpt(line[j], superOpts),
                  hasExtendsOpts |-> \E j \in DOMAIN line : IsOpt(line[j], extendsOpts)]

ParseOptions(docs) ==
    LET marked == {i \in DOMAIN docs : HasMarkerPrefix(docs[i])}
    IN  IF marked = {} THEN NoOpts
        ELSE LET line == docs[Min(marked)]
                 opts == {j \in DOMAIN line : IsAnyOpt(line[j])}
                 first == IF opts = {} THEN <<>> ELSE line[Min(opts)]
             IN  [hasMarker |-> TRUE,
                  hasPointerOpts |-> IsOpt(first, pointerOpts),
                  hasSuperOpts |-> IsOpt(first, superOpts),
                  hasExtendsOpts |-> IsOpt(first, extendsOpts)]

-----------------------------------------------------------------------------
(* Types and identifiers resolved against a file's imports *)

\* walker.ToTypePrinter(field.Type), typePrinter.Print(walker.PkgPath) and
\* typePrinter.ImportPkgMap(walker.PkgPath): a type expression names its
\* package by the alias q the file imports it under ("" for a type of the
\* walker's own package or a builtin)
ResolveType(fileImports, t) ==
    IF t.q = "" THEN [ok |-> TRUE, print |-> t, imports |-> EmptyMap]
    ELSE IF t.q \in DOMAIN fileImports
         THEN [ok |-> TRUE, print |-> t,
               imports |-> [a \in {t.q} |-> fileImports[a]]]
         ELSE [ok |-> FALSE, print |-> t, imports |-> EmptyMap]

\* genutil.ToTypePrinter(genutil.AstFileToImportMap(walker.ToFile(field)),
\*                       walker.PkgPath, s) and p.ImportPkgMap(walker.PkgPath)
ResolveIdent(fileImports, s) ==
    IF s.q = "" THEN [ok |-> TRUE, imports |-> EmptyMap]
    ELSE IF s.q \in DOMAIN fileImports
         THEN [ok |-> TRUE, imports |-> [a \in {s.q} |-> fileImports[a]]]
         ELSE [ok |-> FALSE, imports |-> EmptyMap]

\* strings.FieldsFunc(constValue, not letter and not one of . _ -): the
\* identifier runs of the expression, the separator runs dropped
IdentTokens(constValue) == SelectSeq(constValue, LAMBDA piece : piece.id)

\* genutil.ParseFieldName(field): the declared name, or for an embedded field
\* the name of its type
ParseFieldName(field) ==
    IF Len(field.names) > 0 THEN field.names[1] ELSE field.type.n

-----------------------------------------------------------------------------
(* Field classification and import collection, lines 117-172 *)

\* tag.Lookup("required")
LookupRequired(tag) == [value |-> tag.constValue, ok |-> tag.required]

\* tag.Lookup("super")
LookupSuper(tag) == tag.super

\* as IsClassified, were any tag enough (line 128 dropped)
IsClassifiedAnyTag(field) == field.tag.present

\* as IsClassified, were the `super` lookup left out of line 128
IsClassifiedRequiredOnly(field) ==
    /\ field.tag.present
    /\ LookupRequired(field.tag).ok

\* a field passes lines 120-130 and is appended to fieldInfos
IsClassified(field) ==
    /\ field.tag.present
    /\ LookupRequired(field.tag).ok \/ LookupSuper(field.tag)

RECURSIVE ResolveIdents(_, _, _)
\* lines 153-165: the identifiers of a constant value, in order
ResolveIdents(fileImports, ss, acc) ==
    IF acc.err # "nil" \/ ss = <<>> THEN acc
    ELSE LET p == ResolveIdent(fileImports, Head(ss))
         IN  IF ~p.ok
             THEN [acc EXCEPT !.err = "ident"]
             ELSE ResolveIdents(fileImports, Tail(ss),
                    [acc EXCEPT !.importPackages = MergeImports(@, p.imports)])

\* one iteration of the loop over structType.Fields.List
ScanField(fileImports, field, acc) ==
    IF ~IsClassified(field) THEN acc
    ELSE LET constValue == LookupRequired(field.tag).value
             fieldName == ParseFieldName(field)
             typePrinter == ResolveType(fileImports, field.type)
         IN  IF ~typePrinter.ok THEN [acc EXCEPT !.err = "type"]
             ELSE LET acc1 ==
                        [acc EXCEPT
                           !.fieldInfos = Append(@, [Type |-> typePrinter.print,
                                                     Name |-> fieldName,
                                                     ConstValue |-> constValue]),
                           !.superName = IF LookupSuper(field.tag)
                                         THEN fieldName ELSE @]
                  IN  IF constValue # <<>>
                      THEN ResolveIdents(fileImports, IdentTokens(constValue), acc1)
                      ELSE [acc1 EXCEPT
                              !.importPackages = MergeImports(@, typePrinter.imports)]

RECURSIVE ScanFields(_, _, _)
\* the loop over structType.Fields.List, left at the first error
ScanFields(fileImports, fields, acc) ==
    IF acc.err # "nil" \/ fields = <<>> THEN acc
    ELSE ScanFields(fileImports, Tail(fields),
                    ScanField(fileImports, Head(fields), acc))

\* lines 174-181
InterfaceName(opts, superName, structName) ==
    IF opts.hasExtendsOpts
    THEN Join(match(SplitIntoWords(ToUpperCamel(superName)),
                    SplitIntoWords(ToUpperCamel(structName))))
    ELSE IF opts.hasSuperOpts THEN ToUpperCamel(structName)
    ELSE <<>>

-----------------------------------------------------------------------------
(* The constructor template, lines 186-203 *)

LocalType(n) == [ptr |-> FALSE, q |-> "", n |-> n]

\* and ($.Extends) (eq (ToUpperCamel .Name) $.InterfaceName)
IsNarrowed(p, f) == p.Extends /\ ToUpperCamel(f.Name) = p.InterfaceName

\* as IsParam, were the {{ if not .ConstValue }} test left out
IsParamAlways(f) == TRUE

\* {{ if not .ConstValue }}: the field is a parameter
IsParam(f) == f.ConstValue = <<>>

\* line 190
ParamOf(p, f) ==
    IF IsNarrowed(p, f)
    THEN [name |-> <<"x">>, type |-> LocalType(p.InterfaceName)]
    ELSE [name |-> ToLowerCamel(f.Name), type |-> f.Type]

\* lines 196-200
AssignOf(p, f) ==
    IF ~IsParam(f)
    THEN [field |-> f.Name, kind |-> "const", const |-> f.ConstValue, expr |-> <<>>]
    ELSE IF IsNarrowed(p, f)
         THEN [field |-> f.Name, kind |-> "cast", const |-> <<>>, expr |-> f.Name]
         ELSE [field |-> f.Name, kind |-> "param", const |-> <<>>,
               expr |-> ToLowerCamel(f.Name)]

\* line 193: {{ if .Pointer }}*{{ end }}
ReturnStar(p) == p.Pointer

\* line 193: the name of the result type
ReturnType(p) == IF p.Super \/ p.Extends THEN p.InterfaceName ELSE p.StructName

\* as AddressOf, were the address taken under .Pointer alone
AddressOfPointerOnly(p) == p.Pointer

\* line 194: {{ if or (.Pointer) (.Super) (.Extends) }}&{{ end }}
AddressOf(p) == p.Pointer \/ p.Super \/ p.Extends

Render(p) ==
    LET params == SelectSeq(p.Fields, IsParam)
    IN  [name |-> <<"N", "e", "w">> \o ToUpperCamel(p.StructName),
         params |-> [i \in DOMAIN params |-> ParamOf(p, params[i])],
         star |-> ReturnStar(p),
         ret |-> ReturnType(p),
         amp |-> AddressOf(p),
         lit |-> p.StructName,
         assigns |-> [i \in DOMAIN p.Fields |-> AssignOf(p, p.Fields[i])]]

NoCtor == [name |-> <<>>, params |-> <<>>, star |-> FALSE, ret |-> <<>>,
           amp |-> FALSE, lit |-> <<>>, assigns |-> <<>>]

\* format.Source(out.Bytes()): the assembled file must parse; the only text
\* not fixed by the templates is the constant values, emitted verbatim
FormatOK(ctors) ==
    \A i \in DOMAIN ctors : \A j \in DOMAIN ctors[i].assigns :
        \A k \in DOMAIN ctors[i].assigns[j].const :
            ~ctors[i].assigns[j].const[k].broken

-----------------------------------------------------------------------------
(* Run, lines 60-253 *)

NoOutput == [written |-> FALSE, body |-> <<>>, imports |-> EmptyMap]

NoSpec == [name |-> <<>>, doc |-> <<>>, declDoc |-> <<>>, fields |-> <<>>,
           imports |-> EmptyMap]

NoLast == [visited |-> FALSE, grp |-> 0, spec |-> NoSpec, opts |-> NoOpts,
           generated |-> FALSE, fieldInfos |-> <<>>, superName |-> <<>>,
           interfaceName |-> <<>>, ctor |-> NoCtor]

\* the position at which the loop over walkers starts its next iteration,
\* or is left when no walker remains (line 73, line 252)
LoopHead(next) == IF next > Len(walkers) THEN "returning" ELSE "specs"

\* Run is entered with the walkers genutil.DirToAstWalker returned, one
\* of the inputs of the set Inputs
InitWith(Inputs) ==
    /\ walkers \in Inputs
    /\ gi = 1
    /\ pc = LoopHead(1)
    /\ si = 0
    /\ body = <<>>
    /\ importPackages = EmptyMap
    /\ last = NoLast
    /\ outputs = [g \in DOMAIN walkers |-> NoOutput]
    /\ writers = <<>>
    /\ deferred = <<>>
    /\ err = "nil"

\* as ReturnErr, were the error recorded and the loop carried on
ReturnErrCarryOn(e) ==
    /\ err' = e
    /\ pc' = pc

\* `return err` inside the loops (lines 135, 160, 236, 241, 248)
ReturnErr(e) ==
    /\ err' = e
    /\ pc' = "returning"

\* `continue` of the loop over walkers, and the end of its body: the next
\* iteration makes a new body buffer and a new importPackages (lines 74-75)
NextWalker ==
    /\ gi' = gi + 1
    /\ si' = 0
    /\ body' = <<>>
    /\ importPackages' = EmptyMap
    /\ pc' = LoopHead(gi + 1)

\* One iteration of `for _, spec := range walker.AllStructSpecs()`, lines
\* 76-214.
ProcessSpec ==
    /\ pc = "specs"
    /\ si < Len(walkers[gi])
    /\   LET spec == walkers[gi][si + 1]
             docs == DocsOf(spec)
             opts == ParseOptions(docs)
             scan == ScanFields(spec.imports, spec.fields,
                                [err |-> "nil", fieldInfos |-> <<>>,
                                 superName |-> <<>>,
                                 importPackages |-> importPackages])
             interfaceName == InterfaceName(opts, scan.superName, spec.name)
             ctor == Render([StructName |-> spec.name,
                             InterfaceName |-> interfaceName,
                             Fields |-> scan.fieldInfos,
                             Pointer |-> opts.hasPointerOpts,
                             Super |-> opts.hasSuperOpts,
                             Extends |-> opts.hasExtendsOpts])
             seen == [NoLast EXCEPT !.visited = TRUE, !.grp = gi,
                                    !.spec = spec, !.opts = opts]
         IN  /\ si' = si + 1
             /\ IF Len(docs) = 0 \/ ~opts.hasMarker
                THEN /\ last' = seen
                     /\ UNCHANGED <<pc, body, importPackages, err>>
                ELSE IF scan.err # "nil"
                THEN /\ last' = seen
                     /\ ReturnErr(scan.err)
                     /\ importPackages' = scan.importPackages
                     /\ UNCHANGED body
                ELSE /\ last' = [seen EXCEPT !.generated = TRUE,
                                             !.fieldInfos = scan.fieldInfos,
                                             !.superName = scan.superName,
                                             !.interfaceName = interfaceName,
                                             !.ctor = ctor]
                     /\ body' = Append(body, ctor)
                     /\ importPackages' = scan.importPackages
                     /\ UNCHANGED <<pc, err>>
    /\ UNCHANGED <<walkers, gi, outputs, writers, deferred>>

\* Lines 215-246, once the walker's struct specs are exhausted: an empty
\* body skips the walker; otherwise the file is assembled and formatted, the
\* writer requested and its Close deferred.  newWriter is the caller's:
\* whether the writer it returns is an io.Closer is an input.
Assemble ==
    /\ pc = "specs"
    /\ si = Len(walkers[gi])
    /\ IF Len(body) = 0
       THEN /\ NextWalker
            /\ UNCHANGED <<writers, deferred, err>>
       ELSE IF ~FormatOK(body)
       THEN /\ ReturnErr("format")
            /\ UNCHANGED <<gi, si, body, importPackages, writers, deferred>>
       ELSE /\ \E closable \in BOOLEAN :
                 /\ writers' = Append(writers, [grp |-> gi, closable |-> closable,
                                                writes |-> 0, closes |-> 0])
                 /\ deferred' = IF closable
                                THEN <<Len(writers) + 1>> \o deferred
                                ELSE deferred
            /\ pc' = "write"
            /\ UNCHANGED <<gi, si, body, importPackages, err>>
    /\ UNCHANGED <<walkers, last, outputs>>

\* Lines 247-250: writer.Write(str); whether it succeeds is the writer's.
Write ==
    /\ pc = "write"
    /\ writers' = [writers EXCEPT ![Len(writers)].writes = @ + 1]
    /\ \E writeOK \in BOOLEAN :
         IF writeOK
         THEN /\ outputs' = [outputs EXCEPT ![gi] =
                               [written |-> TRUE, body |-> body,
                                imports |-> importPackages]]
              /\ NextWalker
              /\ UNCHANGED err
         ELSE /\ ReturnErr("write")
              /\ UNCHANGED <<gi, si, body, importPackages, outputs>>
    /\ UNCHANGED <<walkers, last, deferred>>

\* A `return` of Run runs the deferred closer.Close() calls, last in first
\* out (line 245).
RunDeferred ==
    /\ pc = "returning"
    /\ deferred # <<>>
    /\ writers' = [writers EXCEPT ![Head(deferred)].closes = @ + 1]
    /\ deferred' = Tail(deferred)
    /\ UNCHANGED <<walkers, pc, gi, si, body, importPackages, last, outputs, err>>

\* Run has returned err to its caller.
Return ==
    /\ pc = "returning"
    /\ deferred = <<>>
    /\ pc' = "done"
    /\ UNCHANGED <<walkers, gi, si, body, importPackages, last, outputs,
                   writers, deferred, err>>

Next ==
    \/ ProcessSpec
    \/ Assemble
    \/ Write
    \/ RunDeferred
    \/ Return

-----------------------------------------------------------------------------
(* Inputs: names, types, tags, constant values, doc comments *)

nAdminUser == <<"A","d","m","i","n","U","s","e","r">>
nUserBase == <<"U","s","e","r","B","a","s","e">>
nBase == <<"B","a","s","e">>
nUser == <<"U","s","e","r">>
nuser == <<"u","s","e","r">>
nRole == <<"R","o","l","e">>
nPoint == <<"P","o","i","n","t">>
nX == <<"X">>
nY == <<"Y">>
nInt == <<"i","n","t">>
nString == <<"s","t","r","i","n","g">>
nTime == <<"T","i","m","e">>
nOpt == <<"O","p","t">>

tInt == [ptr |-> FALSE, q |-> "", n |-> nInt]
tString == [ptr |-> FALSE, q |-> "", n |-> nString]
tPtrUserBase == [ptr |-> TRUE, q |-> "", n |-> nUserBase]
tPtruser == [ptr |-> TRUE, q |-> "", n |-> nuser]
tTime == [ptr |-> FALSE, q |-> "time", n |-> nTime]
tUtilOpt == [ptr |-> FALSE, q |-> "util", n |-> nOpt]
tUnknown == [ptr |-> FALSE, q |-> "nopkg", n |-> nOpt]

\* pieces of a constant-value expression
Sep(text) == [id |-> FALSE, q |-> "", text |-> text, broken |-> FALSE]
Ident(q, text) == [id |-> TRUE, q |-> q, text |-> text, broken |-> FALSE]
Unbalanced == [id |-> FALSE, q |-> "", text |-> "(", broken |-> TRUE]

cvEmpty == <<>>
cvAdmin == <<Sep("\""), Ident("", "admin"), Sep("\"")>>
cvTimeSecond == <<Sep("2*"), Ident("time", "time.Second")>>
cvUtilMax == <<Ident("util", "util.Max")>>
cvUnknown == <<Ident("nopkg", "nopkg.X")>>
cvBroken == <<Unbalanced>>

\* field.Tag == nil
NoTag == [present |-> FALSE, required |-> FALSE, constValue |-> <<>>,
          super |-> FALSE]
\* a tag without either key
OtherTag == [NoTag EXCEPT !.present = TRUE]
Required(cv) == [OtherTag EXCEPT !.required = TRUE, !.constValue = cv]
Super == [OtherTag EXCEPT !.super = TRUE]
RequiredSuper(cv) == [Required(cv) EXCEPT !.super = TRUE]

Field(name, type, tag) == [names |-> <<name>>, type |-> type, tag |-> tag]
Embedded(type, tag) == [names |-> <<>>, type |-> type, tag |-> tag]

\* the imports of the files of a package: two files may import different
\* packages under the same name
FileA == [a \in {"time", "util"} |-> IF a = "time" THEN "time" ELSE "a/util"]
FileB == [a \in {"util"} |-> "b/util"]

\* doc-comment lines
Marker == <<commentMarker>>
Glued(opt) == <<commentMarker, opt>>
Note == <<"//", "note">>
Opt(o) == <<o>>
MarkerLine(o) == <<Marker, Opt(o)>>
BareMarkerLine == <<Marker>>
NoteLine == <<Note>>

StructSpec(name, doc, declDoc, fields, imports) ==
    [name |-> name, doc |-> doc, declDoc |-> declDoc, fields |-> fields,
     imports |-> imports]

-----------------------------------------------------------------------------
(* Constructor synthesis: one walker with one struct spec, the fields and  *)
(* the option of the marker line varied                                    *)

Tags == {NoTag, OtherTag, Required(cvEmpty), Required(cvAdmin), Super,
         RequiredSuper(cvEmpty), RequiredSuper(cvAdmin)}

SynthFieldSet ==
    {Field(nX, tInt, t) : t \in Tags}
        \cup {Field(nuser, tPtruser, t) : t \in Tags}
        \cup {Field(nRole, tString, t) : t \in Tags}

\* the field lists of at most n fields of S, no name declared twice
FieldLists(S, n) ==
    {fs \in SeqsUpTo(S, n) :
        \A i, j \in DOMAIN fs : i # j => fs[i].names # fs[j].names}

SynthDocs ==
    {<<MarkerLine(o)>> : o \in {pointerOpts, superOpts, extendsOpts}}
        \cup {<<BareMarkerLine>>, <<NoteLine>>}

\* the two end-to-end examples, and the variants of the first in which the
\* base field is embedded (and so named UserBase) or is named `user`
AdminUserExample ==
    StructSpec(nAdminUser, <<MarkerLine(extendsOpts)>>, <<>>,
               <<Field(nBase, tPtrUserBase, Super),
                 Field(nRole, tString, Required(cvAdmin))>>, FileA)
AdminUserEmbedded ==
    [AdminUserExample EXCEPT !.fields[1] = Embedded(tPtrUserBase, Super)]
AdminUserNarrowed ==
    [AdminUserExample EXCEPT !.fields[1] = Field(nuser, tPtruser, Super)]
PointExample ==
    StructSpec(nPoint, <<MarkerLine(pointerOpts)>>, <<>>,
               <<Field(nX, tInt, NoTag), Field(nY, tInt, NoTag)>>, FileA)

SynthSpecs ==
    {StructSpec(nAdminUser, d, <<>>, fs, FileA) :
        d \in SynthDocs, fs \in FieldLists(SynthFieldSet, MaxFields)}
    \cup {AdminUserExample, AdminUserEmbedded, AdminUserNarrowed, PointExample}

\* one walker holding one struct spec
SynthInputs == {<< <<spec>> >> : spec \in SynthSpecs}

SynthInit == InitWith(SynthInputs)

SpecSynth == SynthInit /\ [][Next]_vars

-----------------------------------------------------------------------------
(* What the claims speak of, read off the input rather than off Run's work *)

\* the field carries the constant-value tag key `required`
HasRequiredKey(f) == f.tag.present /\ f.tag.required
\* the field carries the designated-base tag key `super`
HasSuperKey(f) == f.tag.present /\ f.tag.super
\* the `required` key of the field has a non-empty value
HasConstant(f) == HasRequiredKey(f) /\ f.tag.constValue # <<>>

\* the line, trimmed, begins with the trigger marker
BeginsWithMarker(line) ==
    line # <<>> /\ line[1] # <<>> /\ Head(Head(line)) = commentMarker
\* some doc-comment line of the type or of its declaration group does
IsMarked(spec) ==
    \E line \in Range(spec.doc) \cup Range(spec.declDoc) : BeginsWithMarker(line)

NewName(n) == <<"N", "e", "w">> \o n

\* the name a parameter or an assignment refers to field f by
FieldNameOf(f) == IF f.names = <<>> THEN f.type.n ELSE Head(f.names)

AssignedFields(ctor) == [i \in DOMAIN ctor.assigns |-> ctor.assigns[i].field]

-----------------------------------------------------------------------------
(* Claims on constructor synthesis, under SpecSynth *)

NoKeyedField(spec) ==
    \A i \in DOMAIN spec.fields :
        ~HasRequiredKey(spec.fields[i]) /\ ~HasSuperKey(spec.fields[i])

\* C2 as stated: a type that carries the trigger marker but has no field
\* with a recognized tag key produces no constructor, and a group of only
\* such types produces no output file.
C2_MarkedWithoutKeysYieldsNothing ==
    (last.visited /\ IsMarked(last.spec) /\ NoKeyedField(last.spec))
        => /\ ~last.generated
           /\ body = <<>>
           /\ ~outputs[last.grp].written

\* C2 amended: a type that carries the trigger marker but has no field with
\* a recognized tag key still produces exactly one constructor, New<Type>,
\* with no parameter and an empty record literal (its return type and
\* address-of following the option), and the group's file is written
\* whenever Run ends without error.
C2_MarkedWithoutKeysYieldsEmptyConstructor ==
    (last.visited /\ IsMarked(last.spec) /\ NoKeyedField(last.spec))
        => /\ last.generated
           /\ last.ctor.name = NewName(ToUpperCamel(last.spec.name))
           /\ last.ctor.params = <<>>
           /\ last.ctor.assigns = <<>>
           /\ last.ctor.lit = last.spec.name
           /\ (pc = "specs" /\ gi = last.grp) => body = <<last.ctor>>
           /\ (pc = "done" /\ err = "nil") =>
                 /\ outputs[last.grp].written
                 /\ outputs[last.grp].body = <<last.ctor>>

C2_Witness ==
    /\ last.spec = PointExample
    /\ last.ctor = [name |-> NewName(nPoint), params |-> <<>>, star |-> TRUE,
                    ret |-> nPoint, amp |-> TRUE, lit |-> nPoint,
                    assigns |-> <<>>]
    /\ outputs[1].written

\* C3 as stated: with the pointer option the constructor returns the pointer
\* form of the concrete type and takes the address of the literal; without
\* it the constructor returns by value and takes no address, whatever the
\* other options.
C3_PointerIffAddress ==
    last.generated =>
        IF last.opts.hasPointerOpts
        THEN last.ctor.star /\ last.ctor.ret = last.spec.name /\ last.ctor.amp
        ELSE ~last.ctor.star /\ ~last.ctor.amp

\* C3 amended: with the pointer option the constructor returns the pointer
\* form of the concrete type and takes the address of the literal; without
\* it the return type never has the pointer form, and the constructor
\* returns the concrete type by value with no address-of exactly when
\* neither `super` nor `extends` is set: under `super` or `extends` it
\* returns the interface type and the body does take the address.
C3_PointerOrInterface ==
    last.generated =>
        IF last.opts.hasPointerOpts
        THEN last.ctor.star /\ last.ctor.ret = last.spec.name /\ last.ctor.amp
        ELSE /\ ~last.ctor.star
             /\ IF last.opts.hasSuperOpts \/ last.opts.hasExtendsOpts
                THEN last.ctor.amp /\ last.ctor.ret = last.interfaceName
                ELSE ~last.ctor.amp /\ last.ctor.ret = last.spec.name

C3_Witness ==
    /\ last.generated
    /\ ~last.opts.hasPointerOpts
    /\ last.opts.hasSuperOpts
    /\ last.ctor.amp
    /\ ~last.ctor.star
    /\ last.ctor.ret = nAdminUser

\* C4 as stated: for AdminUser marked `-e` with Base *UserBase tagged
\* `super` and Role string tagged required:"\"admin\"", the constructor
\* NewAdminUser has the inferred interface name User, exactly one parameter
\* typed User, and a body assigning Base by a down-cast of that parameter
\* and Role to the literal "admin".
C4_AdminUserExample ==
    last.spec = AdminUserExample
        => /\ last.generated
           /\ last.ctor.name = NewName(nAdminUser)
           /\ last.interfaceName = nUser
           /\ Len(last.ctor.params) = 1
           /\ last.ctor.params[1].type = LocalType(nUser)
           /\ Len(last.ctor.assigns) = 2
           /\ last.ctor.assigns[1].field = nBase
           /\ last.ctor.assigns[1].kind = "cast"
           /\ last.ctor.assigns[2].field = nRole
           /\ last.ctor.assigns[2].const = cvAdmin

\* C4 amended: for that type the constructor NewAdminUser has an empty
\* inferred interface name, because the words matched against AdminUser are
\* those of the base field's name, Base, not of its type; it takes exactly
\* one parameter, base *UserBase, and its body assigns Base from that
\* parameter, with no down-cast, and Role to the literal "admin".  With the
\* base field embedded (so named UserBase) the interface name is User and
\* the parameter is still userBase *UserBase; the parameter is typed as the
\* interface and down-cast only when the base field's upper-camel name is
\* the interface name, as for a field user *user.
C4_AdminUserByFieldName ==
    /\ last.spec = AdminUserExample
         => /\ last.generated
            /\ last.interfaceName = <<>>
            /\ last.ctor =
                 [name |-> NewName(nAdminUser),
                  params |-> <<[name |-> ToLowerCamel(nBase), type |-> tPtrUserBase]>>,
                  star |-> FALSE, ret |-> <<>>, amp |-> TRUE, lit |-> nAdminUser,
                  assigns |-> <<[field |-> nBase, kind |-> "param", const |-> <<>>,
                                 expr |-> ToLowerCamel(nBase)],
                                [field |-> nRole, kind |-> "const",
                                 const |-> cvAdmin, expr |-> <<>>]>>]
    /\ last.spec = AdminUserEmbedded
         => /\ last.generated
            /\ last.interfaceName = nUser
            /\ last.ctor.params =
                 <<[name |-> ToLowerCamel(nUserBase), type |-> tPtrUserBase]>>
            /\ last.ctor.assigns[1].kind = "param"
    /\ last.spec = AdminUserNarrowed
         => /\ last.generated
            /\ last.interfaceName = nUser
            /\ last.ctor.params = <<[name |-> <<"x">>, type |-> LocalType(nUser)]>>
            /\ last.ctor.assigns[1] =
                 [field |-> nuser, kind |-> "cast", const |-> <<>>, expr |-> nuser]
            /\ last.ctor.assigns[2].const = cvAdmin

C4_Witness ==
    /\ last.spec = AdminUserExample
    /\ last.generated
    /\ last.superName = nBase
    /\ Len(last.ctor.params) = 1

\* the fields of the type that carry a recognized tag key, in declaration
\* order
KeyedFields(spec) ==
    SelectSeq(spec.fields, LAMBDA f : HasRequiredKey(f) \/ HasSuperKey(f))

\* the i-th constructor parameter stands for field f
IsParamFor(ctor, i, f) ==
    /\ i \in DOMAIN ctor.params
    /\ \/ /\ ctor.params[i].name = ToLowerCamel(FieldNameOf(f))
          /\ ctor.params[i].type = f.type
       \/ /\ ctor.params[i].name = <<"x">>
          /\ \E j \in DOMAIN ctor.assigns :
                /\ ctor.assigns[j].field = FieldNameOf(f)
                /\ ctor.assigns[j].kind = "cast"

\* the fields of the type that are to become parameters, given which fields
\* count as constant
ParamsFollow(ctor, spec, IsConst(_)) ==
    LET keyed == KeyedFields(spec)
        ps == SelectSeq(keyed, LAMBDA f : ~IsConst(f))
    IN  /\ Len(ctor.params) = Len(ps)
        /\ \A i \in DOMAIN ps : IsParamFor(ctor, i, ps[i])
        /\ \A i \in DOMAIN keyed :
              IsConst(keyed[i]) =>
                 /\ ctor.assigns[i].field = FieldNameOf(keyed[i])
                 /\ ctor.assigns[i].kind = "const"
                 /\ ctor.assigns[i].const = keyed[i].tag.constValue

\* C5 as stated: a field on which the `required` key is present, whatever
\* its value (the empty value included), is never a parameter and is
\* assigned the key's value verbatim; every classified field without the
\* key yields exactly one parameter, in declaration order.
C5_RequiredKeyNeverParam ==
    last.generated => ParamsFollow(last.ctor, last.spec, HasRequiredKey)

\* C5 amended: a field on which the `required` key has a non-empty value is
\* never a parameter and is assigned that value verbatim; every classified
\* field without the key, or with the empty value for it, yields exactly one
\* parameter, in declaration order.
C5_ConstantNeverParam ==
    last.generated => ParamsFollow(last.ctor, last.spec, HasConstant)

C5_Witness ==
    /\ last.generated
    /\ Len(last.spec.fields) >= 2
    /\ HasConstant(last.spec.fields[1])
    /\ HasRequiredKey(last.spec.fields[2]) /\ ~HasConstant(last.spec.fields[2])
    /\ Len(last.ctor.params) = 1
    /\ last.ctor.assigns[1].const = cvAdmin

FieldInfoNames(infos) == [i \in DOMAIN infos |-> infos[i].Name]
FieldNames(fields) == [i \in DOMAIN fields |-> FieldNameOf(fields[i])]

\* the fields handed to the template are those for which Included holds,
\* and no other field is a parameter or is assigned
SynthesisSetIs(Included(_)) ==
    /\ FieldInfoNames(last.fieldInfos) =
          FieldNames(SelectSeq(last.spec.fields, Included))
    /\ \A i \in DOMAIN last.spec.fields :
          ~Included(last.spec.fields[i]) =>
             /\ FieldNameOf(last.spec.fields[i]) \notin Range(AssignedFields(last.ctor))
             /\ \A k \in DOMAIN last.ctor.params :
                   ~IsParamFor(last.ctor, k, last.spec.fields[i])

ExactlyOneKey(f) == HasRequiredKey(f) # HasSuperKey(f)
SomeKey(f) == HasRequiredKey(f) \/ HasSuperKey(f)

\* C6 as stated: a field of a marked type is in the synthesis set iff it
\* carries exactly one of the keys `required` and `super`.
C6_IncludedIffExactlyOneKey ==
    last.generated => SynthesisSetIs(ExactlyOneKey)

\* C6 amended: a field of a marked type is in the synthesis set iff it
\* carries at least one of the keys `required` and `super` (a field carrying
\* both is included); a field lacking both keys, or having no tag at all,
\* appears neither in the parameter list nor in the construction body.
C6_IncludedIffSomeKey ==
    last.generated => SynthesisSetIs(SomeKey)

C6_Witness ==
    /\ last.generated
    /\ Len(last.spec.fields) >= 2
    /\ HasRequiredKey(last.spec.fields[1]) /\ HasSuperKey(last.spec.fields[1])
    /\ ~SomeKey(last.spec.fields[2]) /\ last.spec.fields[2].tag.present
    /\ Len(last.fieldInfos) = 1

-----------------------------------------------------------------------------
(* Option parsing: one walker; its first struct spec has its doc comments  *)
(* varied, the struct specs after it are of two fixed neighbours           *)

OptTokens == {Opt(pointerOpts), Opt(superOpts), Opt(extendsOpts), Opt("x")}

\* a comment line begins with the marker, with the marker and more glued to
\* it, or with something else, and goes on with at most MaxOptTokens tokens
ParseLines ==
    {<<first>> \o rest :
        first \in {Marker, Glued(pointerOpts), Note},
        rest \in SeqsUpTo(OptTokens, MaxOptTokens)}

ParseDeclDocs ==
    {<<>>, <<NoteLine>>, <<MarkerLine(superOpts)>>, <<<<Note, Opt(extendsOpts)>>>>}

ParamField == Field(nX, tInt, Required(cvEmpty))

ParseSpecs ==
    {StructSpec(nPoint, d, dd, fs, FileA) :
        d \in SeqsUpTo(ParseLines, 1), dd \in ParseDeclDocs,
        fs \in {<<>>, <<ParamField>>}}

NeighbourSpecs ==
    {StructSpec(nAdminUser, <<MarkerLine(pointerOpts)>>, <<>>, <<ParamField>>, FileA),
     StructSpec(nUserBase, <<NoteLine>>, <<>>, <<ParamField>>, FileA)}

\* one walker of at most MaxSpecs struct specs
ParseInputs ==
    {<< <<spec>> \o rest >> :
        spec \in ParseSpecs, rest \in SeqsUpTo(NeighbourSpecs, MaxSpecs - 1)}

ParseInit == InitWith(ParseInputs)

SpecParse == ParseInit /\ [][Next]_vars

-----------------------------------------------------------------------------
(* Claims on option parsing, under SpecParse *)

\* the constructors generated so far for walker g
BodyOf(g) == IF g = gi /\ pc \in {"specs", "write"} THEN body ELSE outputs[g].body

\* the struct specs of walker g visited so far
VisitedOf(g) ==
    SubSeq(walkers[g], 1,
           IF g < gi THEN Len(walkers[g]) ELSE IF g = gi THEN si ELSE 0)

MarkedVisited(g) == {i \in DOMAIN VisitedOf(g) : IsMarked(VisitedOf(g)[i])}

\* C1: a struct type none of whose doc-comment lines (its own and those of
\* its declaration group) begins with the trigger marker gets no
\* constructor, whatever its fields' tags and whatever its neighbours: the
\* visit generates nothing, and a walker's body never holds more
\* constructors than marked types were visited.
C1_UnmarkedYieldsNothing ==
    /\ (last.visited /\ ~IsMarked(last.spec)) => ~last.generated
    /\ \A g \in DOMAIN walkers :
          /\ Len(BodyOf(g)) <= Cardinality(MarkedVisited(g))
          /\ \A k \in DOMAIN BodyOf(g) :
                \E i \in MarkedVisited(g) :
                    BodyOf(g)[k].lit = walkers[g][i].name

C1_Witness ==
    /\ Len(walkers[1]) = 2
    /\ IsMarked(walkers[1][1])
    /\ last.spec = walkers[1][2]
    /\ ~IsMarked(last.spec)
    /\ \E i \in DOMAIN last.spec.fields : HasRequiredKey(last.spec.fields[i])
    /\ outputs[1].written
    /\ Len(outputs[1].body) = 1

Flags(opts) ==
    {o \in {pointerOpts, superOpts, extendsOpts} :
        \/ o = pointerOpts /\ opts.hasPointerOpts
        \/ o = superOpts /\ opts.hasSuperOpts
        \/ o = extendsOpts /\ opts.hasExtendsOpts}

Recognized(tok) == tok \in {<<pointerOpts>>, <<superOpts>>, <<extendsOpts>>}

\* option o is the first recognized option token of the line
FirstOptionOf(line, o) ==
    \E j \in DOMAIN line :
        /\ line[j] = <<o>>
        /\ \A k \in 1..(j-1) : ~Recognized(line[k])

\* C10: at most one of the flags -p, -s, -e is honored: only the first
\* doc-comment line that begins with the marker is examined, and on it the
\* first token that is a recognized option sets its flag; nothing else sets
\* a flag, so a marker line carrying -s and then -e selects -s.
C10_FirstOptionOfFirstMarkerLine ==
    last.visited =>
        LET docs == last.spec.doc \o last.spec.declDoc
            marked == {i \in DOMAIN docs : BeginsWithMarker(docs[i])}
        IN  /\ Cardinality(Flags(last.opts)) <= 1
            /\ last.opts.hasMarker <=> marked # {}
            /\ marked = {} => Flags(last.opts) = {}
            /\ marked # {} =>
                 \E i \in marked :
                    /\ \A k \in marked : i <= k
                    /\ \A o \in {pointerOpts, superOpts, extendsOpts} :
                          o \in Flags(last.opts) <=> FirstOptionOf(docs[i], o)

C10_Witness ==
    /\ last.spec.doc = <<<<Marker, Opt(superOpts), Opt(extendsOpts)>>>>
    /\ last.spec.declDoc = <<MarkerLine(superOpts)>>
    /\ last.generated
    /\ last.opts.hasSuperOpts
    /\ ~last.opts.hasExtendsOpts
    /\ last.ctor.ret = ToUpperCamel(last.spec.name)

-----------------------------------------------------------------------------
(* Whole runs: at most MaxGroups walkers, each one of a catalogue of       *)
(* packages                                                                *)

Marked(name, fields, imports) ==
    StructSpec(name, <<BareMarkerLine>>, <<>>, fields, imports)

Unmarked == StructSpec(nUserBase, <<NoteLine>>, <<>>, <<ParamField>>, FileA)
\* T time.Time `required:""`: a parameter of an imported type
TimeParam == Marked(nPoint, <<Field(nTime, tTime, Required(cvEmpty))>>, FileA)
\* X int `required:"2*time.Second"`, declared in a file importing time
TimeConst == Marked(nRole, <<Field(nX, tInt, Required(cvTimeSecond))>>, FileA)
\* X int `required:"util.Max"`, declared in a file importing a/util as util
UtilConstA == Marked(nAdminUser, <<Field(nX, tInt, Required(cvUtilMax))>>, FileA)
\* O util.Opt `required:""`, declared in a file importing b/util as util
UtilParamB == Marked(nUser, <<Field(nOpt, tUtilOpt, Required(cvEmpty))>>, FileB)
\* T time.Time `required:"\"admin\""` and an untagged util.Opt
ConstOfImportedType ==
    Marked(nBase, <<Field(nTime, tTime, Required(cvAdmin)),
                    Field(nOpt, tUtilOpt, NoTag)>>, FileA)
\* the second field's type names a package the file does not import
TypeError ==
    Marked(nPoint, <<Field(nTime, tTime, Required(cvEmpty)),
                     Field(nOpt, tUnknown, Super)>>, FileA)
\* the constant names a package the file does not import
IdentError == Marked(nPoint, <<Field(nX, tInt, Required(cvUnknown))>>, FileA)
\* the constant is not an expression: the assembled file does not parse
Malformed == Marked(nPoint, <<Field(nX, tInt, Required(cvBroken))>>, FileA)

RunPackages ==
    {<<>>,
     <<Unmarked>>,
     <<TimeParam, Unmarked>>,
     <<TimeConst>>,
     <<UtilConstA, UtilParamB>>,
     <<ConstOfImportedType>>,
     <<TimeParam, TypeError, UtilConstA>>,
     <<Unmarked, IdentError, TimeParam>>,
     <<TimeParam, Malformed>>}

RunInputs == SeqsUpTo(RunPackages, MaxGroups)

RunInit == InitWith(RunInputs)

SpecRun == RunInit /\ [][Next]_vars

-----------------------------------------------------------------------------
(* Claims on whole runs, under SpecRun *)

\* C7 as stated: a writer is requested only for a group that produced a
\* constructor; a closable writer is closed exactly once, only after the
\* group's write was attempted, whether the write succeeded or not and
\* when a later group aborts the run; and it is released when its group's
\* processing completes, before the next group is entered.
C7_WriterClosedWithItsGroup ==
    \A i \in DOMAIN writers :
        LET w == writers[i]
        IN  /\ \/ outputs[w.grp].written /\ outputs[w.grp].body # <<>>
               \/ w.grp = gi /\ body # <<>>
            /\ w.closes <= 1
            /\ w.closes = 1 => w.closable /\ w.writes = 1
            /\ (pc = "done" /\ w.closable) => w.closes = 1
            /\ (pc \in {"specs", "write"} /\ w.grp < gi /\ w.closable)
                   => w.closes = 1

\* the external namespaces a field of a marked type references, each with
\* the alias it is referenced by: those of the identifiers of its constant
\* value, or, having none, that of its type
RefsOfField(spec, f) ==
    IF ~(HasRequiredKey(f) \/ HasSuperKey(f)) THEN {}
    ELSE IF HasConstant(f)
    THEN {<<f.tag.constValue[k].q, spec.imports[f.tag.constValue[k].q]>> :
             k \in {k \in DOMAIN f.tag.constValue :
                       /\ f.tag.constValue[k].id
                       /\ f.tag.constValue[k].q \in DOMAIN spec.imports}}
    ELSE IF f.type.q \in DOMAIN spec.imports
    THEN {<<f.type.q, spec.imports[f.type.q]>>}
    ELSE {}

RefsOfSpec(spec) ==
    IF IsMarked(spec)
    THEN UNION {RefsOfField(spec, spec.fields[j]) : j \in DOMAIN spec.fields}
    ELSE {}

RefsOfGroup(g) == UNION {RefsOfSpec(walkers[g][i]) : i \in DOMAIN walkers[g]}

\* C8 as stated: after a group is processed without error its ImportTable
\* has an entry for every external namespace referenced by the type of a
\* classified non-constant field or by an identifier of a constant value of
\* the group's marked types, and none for a namespace they do not
\* reference; nothing carries over from the previous group.
C8_EntryForEveryNamespace ==
    \A g \in DOMAIN walkers :
        outputs[g].written =>
            LET table == outputs[g].imports
            IN  /\ \A r \in RefsOfGroup(g) :
                      \E a \in DOMAIN table : table[a] = r[2]
                /\ \A a \in DOMAIN table :
                      \E r \in RefsOfGroup(g) : table[a] = r[2]

\* C8 amended: after a group is processed without error its ImportTable
\* has an entry under every alias by which such a type or identifier
\* references an external namespace, and every entry maps its alias to a
\* namespace so referenced under that alias, so none is for a namespace
\* they do not reference and nothing carries over from the previous group;
\* of two namespaces referenced under one alias only one has an entry, and
\* every referenced namespace has one when no alias is shared.
C8_EntryForEveryAlias ==
    \A g \in DOMAIN walkers :
        outputs[g].written =>
            LET table == outputs[g].imports
                refs == RefsOfGroup(g)
            IN  /\ \A r \in refs : r[1] \in DOMAIN table
                /\ \A a \in DOMAIN table : <<a, table[a]>> \in refs
                /\ (\A r1, r2 \in refs : r1[1] = r2[1] => r1 = r2)
                      => \A r \in refs : table[r[1]] = r[2]

C8_Witness ==
    /\ Len(walkers) = 2
    /\ walkers[1] = <<TimeParam, Unmarked>>
    /\ walkers[2] = <<UtilConstA, UtilParamB>>
    /\ outputs[1].written
    /\ outputs[1].imports = [a \in {"time"} |-> "time"]
    /\ outputs[2].written
    /\ outputs[2].imports = [a \in {"util"} |-> "b/util"]

Unrecoverable == {"type", "ident", "format"}

\* Run is returning, and group gi, where the error was met, and the groups
\* after it have no writer and no output
Aborted ==
    /\ pc \in {"returning", "done"}
    /\ \A i \in DOMAIN writers : writers[i].grp < gi
    /\ \A g \in DOMAIN walkers : g >= gi => outputs[g] = NoOutput

\* a step that processes nothing, requests no writer and changes no output
NothingProcessed ==
    /\ err' = err
    /\ outputs' = outputs
    /\ <<gi, si, body, last>>' = <<gi, si, body, last>>
    /\ Len(writers') = Len(writers)

\* C9: an unrecoverable error met while processing group k is returned at
\* once: Run is then returning, no writer was requested and nothing written
\* for group k or a later one, and from then on no struct spec or group is
\* processed, no writer requested and no output changed.
C9_ErrorAbortsRun ==
    /\ [](err \in Unrecoverable => Aborted)
    /\ [][(err \in Unrecoverable) => NothingProcessed]_vars

C9_Witness ==
    /\ err = "type"
    /\ pc = "done"
    /\ gi = 2
    /\ si < Len(walkers[2])
    /\ outputs[1].written
    /\ ~outputs[2].written
    /\ Len(writers) = 1
    /\ writers[1].closable /\ writers[1].closes = 1

====
